---- MODULE Spec2Model ----
(***************************************************************************)
(* Model of csv_data_validator.py: the coercion function safe_cast and the *)
(* two-phase (header, then rows) validator validate_csv.                   *)
(*                                                                         *)
(* A string is a sequence of one-character strings, so that strip(),       *)
(* lower(), float() and str() are computed character by character.         *)
(***************************************************************************)
EXTENDS Integers, Sequences, FiniteSets, TLC

VARIABLES
    \* ---- validate_csv ----
    schema,         \* the schema argument: column name -> type tag
    pc,             \* position in validate_csv
    header_row,     \* the raw first row next(reader) returned (history)
    data_rows,      \* the raw data rows the reader has yielded so far (history)
    headers,        \* local: trimmed header cells
    header_issues,  \* local: list of header issues
    errors,         \* local: list of row errors
    next_num,       \* the counter inside enumerate(reader, start=2)
    row_num,        \* loop variable of enumerate(reader, start=2)
    row,            \* loop variable: the current raw row
    i,              \* inner loop: number of header positions already handled
    row_errors,     \* local: issues of the current row
    record,         \* local: header name -> raw value of the current row
    exc,            \* the exception validate_csv caught on its fatal path
    result,         \* the returned pair (errors, header issues)
    \* ---- safe_cast called on its own ----
    cast_pc,        \* "start", "cast" (called once), "recast" (called on str(x))
    cast_value,     \* the raw cell
    cast_type,      \* the type tag
    cast_res,       \* outcome of safe_cast(cast_value, cast_type)
    recast_res      \* outcome of safe_cast(str(x), cast_type)

vvars == <<schema, pc, header_row, data_rows, headers, header_issues, errors,
           next_num, row_num, row, i, row_errors, record, exc, result>>
cvars == <<cast_pc, cast_value, cast_type, cast_res, recast_res>>
vars == <<vvars, cvars>>

-----------------------------------------------------------------------------
(* Bounds *)

\* longest enumerated cell, in characters
MaxCellLen == 3
\* most data rows the reader yields
MaxRows == 2
\* most cells in all the data rows together
MaxCells == 3
\* most cells in the header row
MaxHeaderLen == 2

-----------------------------------------------------------------------------
(* Characters and Python's string built-ins *)

Digits == {"0", "1", "2", "3", "4", "5", "6", "7", "8", "9"}

DigitVal(c) ==
    CASE c = "0" -> 0 [] c = "1" -> 1 [] c = "2" -> 2 [] c = "3" -> 3
      [] c = "4" -> 4 [] c = "5" -> 5 [] c = "6" -> 6 [] c = "7" -> 7
      [] c = "8" -> 8 [] c = "9" -> 9

DigitChar(d) == <<"0", "1", "2", "3", "4", "5", "6", "7", "8", "9">>[d + 1]

Whitespace == {" "}

UpperLetters == <<"A", "B", "C", "D", "E", "F", "G", "H", "I", "J", "K", "L", "M",
                  "N", "O", "P", "Q", "R", "S", "T", "U", "V", "W", "X", "Y", "Z">>
LowerLetters == <<"a", "b", "c", "d", "e", "f", "g", "h", "i", "j", "k", "l", "m",
                  "n", "o", "p", "q", "r", "s", "t", "u", "v", "w", "x", "y", "z">>

\* one character of str.lower()
LowerChar(c) ==
    IF \E k \in 1..26 : UpperLetters[k] = c
    THEN LowerLetters[CHOOSE k \in 1..26 : UpperLetters[k] = c]
    ELSE c

\* str.lower()
Lower(s) == [k \in 1..Len(s) |-> LowerChar(s[k])]

RECURSIVE LStrip(_)
LStrip(s) ==
    IF s # <<>> /\ Head(s) \in Whitespace THEN LStrip(Tail(s)) ELSE s

RECURSIVE RStrip(_)
RStrip(s) ==
    IF s # <<>> /\ s[Len(s)] \in Whitespace
    THEN RStrip(SubSeq(s, 1, Len(s) - 1)) ELSE s

\* str.strip()
Strip(s) == RStrip(LStrip(s))

-----------------------------------------------------------------------------
(* Python values.  Every value is a record of one shape; t is its type.    *)
(* A float is nan, +-inf or a finite decimal sign/ip/fr: integer part ip   *)
(* and fraction digits fr without trailing zeros.  For cells of at most 15 *)
(* significant digits float() followed by repr() gives back exactly that   *)
(* decimal, so two such floats are equal iff their decimals are.           *)

NoFloat == [k |-> "none", neg |-> FALSE, ip |-> 0, fr |-> <<>>]

PyStrVal(s) == [t |-> "str", s |-> s, n |-> 0, b |-> FALSE, f |-> NoFloat]
PyIntVal(n) == [t |-> "int", s |-> <<>>, n |-> n, b |-> FALSE, f |-> NoFloat]
PyBoolVal(b) == [t |-> "bool", s |-> <<>>, n |-> 0, b |-> b, f |-> NoFloat]
PyFloatVal(f) == [t |-> "float", s |-> <<>>, n |-> 0, b |-> FALSE, f |-> f]

RECURSIVE DigitsValue(_)
DigitsValue(ds) ==
    IF ds = <<>> THEN 0
    ELSE 10 * DigitsValue(SubSeq(ds, 1, Len(ds) - 1)) + DigitVal(ds[Len(ds)])

RECURSIVE TrimZeros(_)
TrimZeros(ds) ==
    IF ds # <<>> /\ ds[Len(ds)] = "0"
    THEN TrimZeros(SubSeq(ds, 1, Len(ds) - 1)) ELSE ds

\* float(s) of a stripped string: [ok, f]; ok = FALSE is ValueError.
\* Grammar: [sign] (inf | infinity | nan), any case, or [sign] digits [. digits]
\* with at least one digit; the sign of a nan is not kept (repr prints "nan").  Exponents and digit separators are outside the
\* cells of this model.
ParseFloat(s) ==
    LET signed == s # <<>> /\ s[1] \in {"+", "-"}
        neg == s # <<>> /\ s[1] = "-"
        body == IF signed THEN Tail(s) ELSE s
        low == Lower(body)
        dots == {k \in 1..Len(body) : body[k] = "."}
        dot == IF dots = {} THEN Len(body) + 1 ELSE CHOOSE k \in dots : TRUE
        ipart == SubSeq(body, 1, dot - 1)
        fpart == SubSeq(body, dot + 1, Len(body))
    IN  IF low = <<"n", "a", "n">>
        THEN [ok |-> TRUE, f |-> [k |-> "nan", neg |-> FALSE, ip |-> 0, fr |-> <<>>]]
        ELSE IF low \in {<<"i", "n", "f">>, <<"i", "n", "f", "i", "n", "i", "t", "y">>}
        THEN [ok |-> TRUE, f |-> [k |-> "inf", neg |-> neg, ip |-> 0, fr |-> <<>>]]
        ELSE IF /\ Cardinality(dots) <= 1
                /\ \A k \in 1..Len(body) : body[k] \in Digits \cup {"."}
                /\ Len(ipart) + Len(fpart) >= 1
        THEN [ok |-> TRUE,
              f |-> [k |-> "fin", neg |-> neg, ip |-> DigitsValue(ipart),
                     fr |-> TrimZeros(fpart)]]
        ELSE [ok |-> FALSE, f |-> NoFloat]

\* int(f) of a float: truncation toward zero; int(nan) is ValueError and
\* int(+-inf) is OverflowError.
IntOfFloat(f) ==
    CASE f.k = "nan" -> [exc |-> "ValueError", n |-> 0]
      [] f.k = "inf" -> [exc |-> "OverflowError", n |-> 0]
      [] OTHER -> [exc |-> "none", n |-> IF f.neg THEN 0 - f.ip ELSE f.ip]

RECURSIVE NatToStr(_)
NatToStr(n) ==
    IF n < 10 THEN <<DigitChar(n)>>
    ELSE Append(NatToStr(n \div 10), DigitChar(n % 10))

\* str(x)
PyStr(x) ==
    CASE x.t = "str" -> x.s
      [] x.t = "int" -> IF x.n < 0 THEN <<"-">> \o NatToStr(0 - x.n) ELSE NatToStr(x.n)
      [] x.t = "bool" -> IF x.b THEN <<"T", "r", "u", "e">> ELSE <<"F", "a", "l", "s", "e">>
      [] x.t = "float" ->
            (IF x.f.neg THEN <<"-">> ELSE <<>>) \o
            (CASE x.f.k = "nan" -> <<"n", "a", "n">>
               [] x.f.k = "inf" -> <<"i", "n", "f">>
               [] OTHER -> NatToStr(x.f.ip) \o <<".">> \o
                           (IF x.f.fr = <<>> THEN <<"0">> ELSE x.f.fr))

IsNaN(x) == x.t = "float" /\ x.f.k = "nan"

\* x == y for two values of the same type
PyEq(x, y) ==
    /\ x.t = y.t
    /\ CASE x.t = "str" -> x.s = y.s
         [] x.t = "int" -> x.n = y.n
         [] x.t = "bool" -> x.b = y.b
         [] x.t = "float" ->
              /\ x.f.k # "nan" /\ y.f.k # "nan"
              /\ x.f.k = y.f.k
              /\ x.f.ip = y.f.ip /\ x.f.fr = y.f.fr
              /\ \/ x.f.neg = y.f.neg
                 \/ (x.f.k = "fin" /\ x.f.ip = 0 /\ x.f.fr = <<>>)

-----------------------------------------------------------------------------
(* safe_cast *)

TypeTags == {"int", "float", "str", "bool", "date"}

\* a returned (value, succeeded) pair, or an exception that left safe_cast
Returned(val, ok) == [val |-> val, ok |-> ok, exc |-> "none"]
Raised(e) == [val |-> PyStrVal(<<>>), ok |-> FALSE, exc |-> e]

\* the exception types the except clauses of safe_cast catch
CaughtInCast == {"ValueError", "TypeError"}

\* the false tuple with '0' left out
BoolFalseWordsNoZero == {<<"f", "a", "l", "s", "e">>, <<"f">>, <<"n", "o">>, <<"n">>}

\* the accepted spellings of the two booleans
BoolTrueWords == {<<"t", "r", "u", "e">>, <<"t">>, <<"1">>, <<"y", "e", "s">>, <<"y">>}
BoolFalseWords == {<<"f", "a", "l", "s", "e">>, <<"f">>, <<"0">>, <<"n", "o">>, <<"n">>}

\* the membership tests without lower()
BoolKeyExact(v) == v

\* the key both membership tests use: value.lower()
BoolKey(v) == Lower(v)

\* int(float(value)): the exception it raises ("none" if it returns) and its value
IntOfString(v) ==
    LET pf == ParseFloat(v)
    IN  IF ~pf.ok THEN [exc |-> "ValueError", n |-> 0] ELSE IntOfFloat(pf.f)

\* the body of the try block, for a stripped non-empty value
CastBody(v, target_type) ==
    CASE target_type = "int" ->
            LET r == IntOfString(v)
            IN  IF r.exc = "none" THEN Returned(PyIntVal(r.n), TRUE) ELSE Raised(r.exc)
      [] target_type = "float" ->
            LET pf == ParseFloat(v)
            IN  IF pf.ok THEN Returned(PyFloatVal(pf.f), TRUE) ELSE Raised("ValueError")
      [] target_type = "str" -> Returned(PyStrVal(v), TRUE)
      [] target_type = "bool" ->
            IF BoolKey(v) \in BoolTrueWords THEN Returned(PyBoolVal(TRUE), TRUE)
            ELSE IF BoolKey(v) \in BoolFalseWords THEN Returned(PyBoolVal(FALSE), TRUE)
            ELSE Returned(PyStrVal(v), FALSE)
      [] OTHER -> Returned(PyStrVal(v), FALSE)

safe_cast(value, target_type) ==
    LET v == Strip(value)
        r == CastBody(v, target_type)
    IN  IF v = <<>> THEN Returned(PyStrVal(v), FALSE)
        ELSE IF r.exc \in CaughtInCast THEN Returned(PyStrVal(v), FALSE)
        ELSE r

-----------------------------------------------------------------------------
(* safe_cast called on its own: once on a cell, then on str() of the value *)

Alphabet == {" ", "0", "1", "9", ".", "-", "n", "a", "i", "f", "t", "T"}

Literals == {
    <<"t", "r", "u", "e">>, <<"T", "r", "u", "e">>, <<"T", "R", "U", "E">>,
    <<"f", "a", "l", "s", "e">>, <<"F", "a", "l", "s", "e">>,
    <<"y", "e", "s">>, <<"Y", "e", "s">>, <<"y">>, <<"Y">>, <<"n", "o">>, <<"N", "O">>,
    <<"1", "0", ".", "0">>, <<" ", "1", "0", ".", "0", " ">>,
    <<"t", "h", "i", "r", "t", "y">>, <<"A", "l", "i", "c", "e">>,
    <<"i", "n", "f", "i", "n", "i", "t", "y">>, <<"-", "I", "n", "f">>, <<"N", "a", "N">>,
    <<"+", "1", ".", "5">>, <<"-", "0", ".", "9">> }

CastCells == UNION {[1..n -> Alphabet] : n \in 0..MaxCellLen} \cup Literals

NoResult == Returned(PyStrVal(<<>>), FALSE)

CastCall ==
    /\ cast_pc = "start"
    /\ cast_res' = safe_cast(cast_value, cast_type)
    /\ cast_pc' = "cast"
    /\ UNCHANGED <<cast_value, cast_type, recast_res>>

CastAgain ==
    /\ cast_pc = "cast"
    /\ cast_res.exc = "none" /\ cast_res.ok
    /\ recast_res' = safe_cast(PyStr(cast_res.val), cast_type)
    /\ cast_pc' = "recast"
    /\ UNCHANGED <<cast_value, cast_type, cast_res>>

-----------------------------------------------------------------------------
(* validate_csv: inputs *)

\* the column names a schema may declare and the type tags it may give them
SchemaCols == {<<"A">>, <<"B">>}
\* a one-column schema declares any tag, "date" being none safe_cast knows;
\* a two-column schema declares int and str columns
WideTags == {"int", "str"}
Schemas ==
    {s \in UNION {[D -> TypeTags] : D \in SUBSET SchemaCols} :
        Cardinality(DOMAIN s) > 1 => \A c \in DOMAIN s : s[c] \in WideTags}

\* the raw cells a header row is made of, and the header rows
HeaderCells == {<<" ", "A">>, <<"B">>, <<"C">>}
HeaderRows == UNION {[1..n -> HeaderCells] : n \in 0..MaxHeaderLen}

\* the raw cells a data row is made of, and the data rows
RowCells == {<<" ">>, <<" ", "1">>, <<"x">>, <<"i", "n", "f">>}
DataRows(most) == UNION {[1..n -> RowCells] : n \in 0..most}

\* the number of cells in a sequence of rows
RECURSIVE CellsIn(_)
CellsIn(rows) == IF rows = <<>> THEN 0 ELSE Len(Head(rows)) + CellsIn(Tail(rows))

-----------------------------------------------------------------------------
(* validate_csv: the pieces of its body *)

\* the subtraction the other way round
MissingHeadersSwapped(expected_headers, actual_headers) == actual_headers \ expected_headers

\* expected_headers - actual_headers
MissingHeaders(expected_headers, actual_headers) == expected_headers \ actual_headers

\* actual_headers - expected_headers
ExtraHeaders(expected_headers, actual_headers) == actual_headers \ expected_headers

\* the two appends to header_issues; the joined names are kept as a set
HeaderIssuesOf(missing_headers, extra_headers) ==
    (IF missing_headers # {}
     THEN <<[kind |-> "Missing required columns", cols |-> missing_headers]>> ELSE <<>>)
    \o
    (IF extra_headers # {}
     THEN <<[kind |-> "Found unexpected columns", cols |-> extra_headers]>> ELSE <<>>)

EmptyFileIssue == [kind |-> "CSV file is empty.", cols |-> {}]

\* enumerate(reader, start=1)
RowStartAtHeader == 2 - 1

\* the first row number enumerate hands out
RowStart == 2

\* the bound check off by one: the last cell of a row reads as ''
CellAtOffByOne(r, pos) == IF pos < Len(r) THEN r[pos] ELSE <<>>

\* row[i] if i < len(row) else '' (positions counted from 1 here)
CellAt(r, pos) == IF pos <= Len(r) THEN r[pos] ELSE <<>>

\* record[header] = value
RecordSet(rec, header, value) ==
    [c \in DOMAIN rec \cup {header} |-> IF c = header THEN value ELSE rec[c]]

\* the two tests in the other order: is_valid first
CellIssuesTypeFirst(header, value, expected_type, is_valid) ==
    IF ~is_valid
    THEN <<[kind |-> "Type Mismatch", col |-> header,
            expected |-> expected_type, found |-> value]>>
    ELSE IF Strip(value) = <<>>
    THEN <<[kind |-> "Missing Value", col |-> header,
            expected |-> "", found |-> <<>>]>>
    ELSE <<>>

\* the issues one cell adds to row_errors
CellIssues(header, value, expected_type, is_valid) ==
    IF Strip(value) = <<>>
    THEN <<[kind |-> "Missing Value", col |-> header,
            expected |-> "", found |-> <<>>]>>
    ELSE IF ~is_valid
    THEN <<[kind |-> "Type Mismatch", col |-> header,
            expected |-> expected_type, found |-> value]>>
    ELSE <<>>

\* if row_errors: errors.append({...})
RowRecorded(errs, num, rec, issues) ==
    IF issues # <<>>
    THEN Append(errs, [row |-> num, data |-> rec, issues |-> issues])
    ELSE errs

\* no early return on header issues
HeaderNeverBlocks(issues) == FALSE

\* if header_issues: return errors, header_issues
HeaderBlocks(issues) == issues # <<>>

NoResultYet == [errors |-> <<>>, header_issues |-> <<>>]

CastIdle ==
    /\ cast_pc = "off" /\ cast_value = <<>> /\ cast_type = "str"
    /\ cast_res = NoResult /\ recast_res = NoResult

Init ==
    /\ schema \in Schemas
    /\ pc = "open"
    /\ header_row = <<>> /\ data_rows = <<>>
    /\ headers = <<>> /\ header_issues = <<>> /\ errors = <<>>
    /\ next_num = 0 /\ row_num = 0 /\ row = <<>> /\ i = 0
    /\ row_errors = <<>> /\ record = <<>>
    /\ exc = "none" /\ result = NoResultYet
    /\ CastIdle

\* an exception reaches one of the three handlers of validate_csv: sys.exit(1)
Fatal(e) ==
    /\ pc' = "fatal"
    /\ exc' = e

Return(errs, issues) ==
    /\ pc' = "done"
    /\ result' = [errors |-> errs, header_issues |-> issues]

\* open(filepath) and csv.reader(file)
Open ==
    /\ pc = "open"
    /\ pc' = "header"
    /\ UNCHANGED <<schema, header_row, data_rows, headers, header_issues, errors,
                   next_num, row_num, row, i, row_errors, record, exc, result>>
    /\ UNCHANGED cvars

OpenFails ==
    /\ pc = "open"
    /\ Fatal("FileNotFoundError")
    /\ UNCHANGED <<schema, header_row, data_rows, headers, header_issues, errors,
                   next_num, row_num, row, i, row_errors, record, result>>
    /\ UNCHANGED cvars

\* next(reader) raises StopIteration: the file has no row at all
ReadHeaderEmpty ==
    /\ pc = "header"
    /\ Return(errors, <<EmptyFileIssue>>)
    /\ UNCHANGED <<schema, header_row, data_rows, headers, header_issues, errors,
                   next_num, row_num, row, i, row_errors, record, exc>>
    /\ UNCHANGED cvars

\* next(reader) returns the header row; header validation
ReadHeader ==
    /\ pc = "header"
    /\ \E h \in HeaderRows :
        LET hs == [k \in 1..Len(h) |-> Strip(h[k])]
            expected_headers == DOMAIN schema
            actual_headers == {hs[k] : k \in 1..Len(hs)}
            missing_headers == MissingHeaders(expected_headers, actual_headers)
            extra_headers == ExtraHeaders(expected_headers, actual_headers)
            issues == HeaderIssuesOf(missing_headers, extra_headers)
        IN  /\ header_row' = <<h>>
            /\ headers' = hs
            /\ header_issues' = issues
            /\ IF HeaderBlocks(issues)
               THEN Return(errors, issues) /\ UNCHANGED next_num
               ELSE pc' = "rows" /\ next_num' = RowStart /\ UNCHANGED result
    /\ UNCHANGED <<schema, data_rows, errors, row_num, row, i, row_errors, record, exc>>
    /\ UNCHANGED cvars

\* the reader raises csv.Error on the row it is asked for
ReadFails ==
    /\ pc \in {"header", "rows"}
    /\ Fatal("csv.Error")
    /\ UNCHANGED <<schema, header_row, data_rows, headers, header_issues, errors,
                   next_num, row_num, row, i, row_errors, record, result>>
    /\ UNCHANGED cvars

\* the for loop takes the next data row
NextRow ==
    /\ pc = "rows"
    /\ Len(data_rows) < MaxRows
    /\ \E r \in DataRows(MaxCells - CellsIn(data_rows)) :
        /\ data_rows' = Append(data_rows, r)
        /\ row' = r
    /\ row_num' = next_num
    /\ next_num' = next_num + 1
    /\ row_errors' = <<>>
    /\ record' = <<>>
    /\ i' = 0
    /\ pc' = "cells"
    /\ UNCHANGED <<schema, header_row, headers, header_issues, errors, exc, result>>
    /\ UNCHANGED cvars

\* the body of the inner loop for one header position
CheckCell ==
    /\ pc = "cells"
    /\ i < Len(headers)
    /\ LET header == headers[i + 1]
           value == CellAt(row, i + 1)
       IN  /\ record' = RecordSet(record, header, value)
           /\ i' = i + 1
           /\ IF header \in DOMAIN schema
              THEN LET expected_type == schema[header]
                       r == safe_cast(value, expected_type)
                   IN  IF r.exc # "none"
                       THEN Fatal(r.exc) /\ UNCHANGED row_errors
                       ELSE /\ row_errors' = row_errors \o
                                    CellIssues(header, value, expected_type, r.ok)
                            /\ UNCHANGED <<pc, exc>>
              ELSE UNCHANGED <<pc, exc, row_errors>>
    /\ UNCHANGED <<schema, header_row, data_rows, headers, header_issues, errors,
                   next_num, row_num, row, result>>
    /\ UNCHANGED cvars

\* after the inner loop: record the row if it has issues
EndRow ==
    /\ pc = "cells"
    /\ i = Len(headers)
    /\ errors' = RowRecorded(errors, row_num, record, row_errors)
    /\ pc' = "rows"
    /\ UNCHANGED <<schema, header_row, data_rows, headers, header_issues,
                   next_num, row_num, row, i, row_errors, record, exc, result>>
    /\ UNCHANGED cvars

\* the reader is exhausted: return errors, header_issues
EndOfRows ==
    /\ pc = "rows"
    /\ Return(errors, header_issues)
    /\ UNCHANGED <<schema, header_row, data_rows, headers, header_issues, errors,
                   next_num, row_num, row, i, row_errors, record, exc>>
    /\ UNCHANGED cvars

Next ==
    \/ Open
    \/ OpenFails
    \/ ReadHeaderEmpty
    \/ ReadHeader
    \/ ReadFails
    \/ NextRow
    \/ CheckCell
    \/ EndRow
    \/ EndOfRows

Spec == Init /\ [][Next]_vars

-----------------------------------------------------------------------------
(* safe_cast on its own *)

ValidateIdle ==
    /\ schema = <<>> /\ pc = "off"
    /\ header_row = <<>> /\ data_rows = <<>>
    /\ headers = <<>> /\ header_issues = <<>> /\ errors = <<>>
    /\ next_num = 0 /\ row_num = 0 /\ row = <<>> /\ i = 0
    /\ row_errors = <<>> /\ record = <<>>
    /\ exc = "none" /\ result = NoResultYet

CastInit ==
    /\ cast_pc = "start"
    /\ cast_value \in CastCells
    /\ cast_type \in TypeTags
    /\ cast_res = NoResult /\ recast_res = NoResult
    /\ ValidateIdle

CastNext ==
    \/ CastCall /\ UNCHANGED vvars
    \/ CastAgain /\ UNCHANGED vvars

CastSpec == CastInit /\ [][CastNext]_vars

-----------------------------------------------------------------------------
(* Properties of validate_csv, checked under Spec *)

\* C1: a returned result never has both a non-empty header-issue list and a
\* non-empty row-error list: either there are header issues and no row
\* errors, or there are no header issues.
C1_ExclusiveOutcome ==
    pc = "done" =>
        \/ result.header_issues # <<>> /\ result.errors = <<>>
        \/ result.header_issues = <<>>

\* a run that returned both header issues, with no row error
C1_Witness ==
    /\ pc = "done"
    /\ Len(result.header_issues) = 2
    /\ result.errors = <<>>

\* C3: once the header matched, a fatal exit is never caused by the content
\* of a cell; only the reader failing ends the run abnormally.
C3_CellsNeverAbort ==
    (pc = "fatal" /\ header_row # <<>>) => exc = "csv.Error"

\* C4: with H the trimmed header cells and S the schema's columns, a
\* "Missing required columns" issue exists iff S \ H is non-empty and names
\* exactly S \ H, a "Found unexpected columns" issue exists iff H \ S is
\* non-empty and names exactly H \ S, and with either issue no data row is
\* read and the returned row-error list is empty.
C4_HeaderReconciliation ==
    (pc \in {"rows", "cells", "done"} /\ header_row # <<>>) =>
        LET h == header_row[1]
            H == {Strip(h[k]) : k \in 1..Len(h)}
            S == DOMAIN schema
            missing == {j \in 1..Len(header_issues) :
                            header_issues[j].kind = "Missing required columns"}
            extra == {j \in 1..Len(header_issues) :
                            header_issues[j].kind = "Found unexpected columns"}
        IN  /\ (missing # {}) <=> (S \ H # {})
            /\ \A j \in missing : header_issues[j].cols = S \ H
            /\ (extra # {}) <=> (H \ S # {})
            /\ \A j \in extra : header_issues[j].cols = H \ S
            /\ Cardinality(missing) <= 1 /\ Cardinality(extra) <= 1
            /\ (missing # {} \/ extra # {}) =>
                    /\ pc = "done"
                    /\ data_rows = <<>>
                    /\ result.errors = <<>>
            /\ pc = "done" => result.header_issues = header_issues

\* a run that stopped on a header with a missing and an unexpected column
C4_Witness ==
    /\ pc = "done"
    /\ header_row # <<>>
    /\ \E j \in 1..Len(result.header_issues) :
            /\ result.header_issues[j].kind = "Missing required columns"
            /\ result.header_issues[j].cols = {<<"A">>}
    /\ \E j \in 1..Len(result.header_issues) :
            /\ result.header_issues[j].kind = "Found unexpected columns"
            /\ result.header_issues[j].cols = {<<"C">>}

\* C5: a cell of a schema column that is empty, whitespace-only or absent
\* (the row is shorter than the header) yields "Missing Value" for its
\* column, and no "Type Mismatch" issue is ever reported for a blank value:
\* in the row being validated, and in the returned row errors.
C5_EmptyCellRule ==
    LET Cell(r, j) == IF j <= Len(r) THEN r[j] ELSE <<>>
        Blank(r, j) == headers[j] \in DOMAIN schema /\ Strip(Cell(r, j)) = <<>>
        HasMissing(issues, c) ==
            \E q \in 1..Len(issues) :
                issues[q].kind = "Missing Value" /\ issues[q].col = c
        NoBlankMismatch(issues) ==
            \A q \in 1..Len(issues) :
                issues[q].kind = "Type Mismatch" => Strip(issues[q].found) # <<>>
    IN  /\ pc = "cells" =>
            /\ \A j \in 1..i : Blank(row, j) => HasMissing(row_errors, headers[j])
            /\ NoBlankMismatch(row_errors)
        /\ pc = "done" =>
            /\ \A k \in 1..Len(data_rows) : \A j \in 1..Len(headers) :
                    Blank(data_rows[k], j) =>
                        \E e \in 1..Len(result.errors) :
                            /\ result.errors[e].row = k + 1
                            /\ HasMissing(result.errors[e].issues, headers[j])
            /\ \A e \in 1..Len(result.errors) :
                    NoBlankMismatch(result.errors[e].issues)

\* a returned run with a whitespace-only cell and a row shorter than the header
C5_Witness ==
    /\ pc = "done"
    /\ \E k \in 1..Len(data_rows) : Len(data_rows[k]) < Len(headers)
    /\ \E k \in 1..Len(data_rows) : \E j \in 1..Len(data_rows[k]) :
            j <= Len(headers) /\ data_rows[k][j] = <<" ">>
    /\ Len(result.errors) = 2

\* C6: if the trimmed header is the schema's columns in some order and every
\* cell of a schema column in every data row is present, non-empty and
\* coercible to the declared type, the run is not ended by a cell and a
\* returned result has no header issue and no row error.
C6_CleanSourcePasses ==
    LET Clean ==
            /\ header_row # <<>>
            /\ LET h == header_row[1]
                   hs == [k \in 1..Len(h) |-> Strip(h[k])]
               IN  /\ Len(h) = Cardinality(DOMAIN schema)
                   /\ {hs[k] : k \in 1..Len(h)} = DOMAIN schema
                   /\ \A k \in 1..Len(data_rows) : \A j \in 1..Len(h) :
                        /\ j <= Len(data_rows[k])
                        /\ Strip(data_rows[k][j]) # <<>>
                        /\ safe_cast(data_rows[k][j], schema[hs[j]]).exc = "none"
                        /\ safe_cast(data_rows[k][j], schema[hs[j]]).ok
    IN  Clean =>
            /\ pc = "done" => result = [errors |-> <<>>, header_issues |-> <<>>]
            /\ pc = "fatal" => exc = "csv.Error"
            /\ errors = <<>> /\ row_errors = <<>> /\ header_issues = <<>>

\* a clean source whose header lists the two columns in the other order
C6_Witness ==
    /\ pc = "done"
    /\ schema = [c \in SchemaCols |-> IF c = <<"A">> THEN "int" ELSE "str"]
    /\ header_row = << <<(<<"B">>), (<<" ", "A">>)>> >>
    /\ data_rows = << <<(<<"x">>), (<<" ", "1">>)>> >>
    /\ result = [errors |-> <<>>, header_issues |-> <<>>]

C9_Numbering ==
    /\ pc = "cells" => row_num = Len(data_rows) + 1
    /\ \A e \in 1..Len(errors) :
            /\ errors[e].issues # <<>>
            /\ errors[e].row >= 2
            /\ e > 1 => errors[e - 1].row < errors[e].row
    /\ pc = "done" => result.errors = errors

C9_EndOfRow ==
    (pc = "cells" /\ pc' = "rows") =>
        IF row_errors # <<>>
        THEN errors' = Append(errors, [row |-> Len(data_rows) + 1,
                                       data |-> record, issues |-> row_errors])
        ELSE errors' = errors

\* C9: the k-th data row has row number k + 1; when its validation ends a
\* Row Error is appended iff it accumulated an issue; so every Row Error has
\* issues and the row numbers are strictly increasing and at least 2.
C9_RowRecording == [](C9_Numbering) /\ [][C9_EndOfRow]_vars

\* two data rows read, only the second recorded, as row 3
C9_Witness ==
    /\ pc = "done"
    /\ Len(data_rows) = 2
    /\ Len(result.errors) = 1
    /\ result.errors[1].row = 3

\* C10: in every Row Error each column of the stored Record has at most one
\* issue, and has one iff its stored value is blank or fails coercion to the
\* column's declared type.
C10_OneIssuePerOffendingColumn ==
    \A e \in 1..Len(errors) :
        LET E == errors[e]
        IN  /\ \A q \in 1..Len(E.issues) : E.issues[q].col \in DOMAIN E.data
            /\ \A c \in DOMAIN E.data :
                LET about == {q \in 1..Len(E.issues) : E.issues[q].col = c}
                    offending ==
                        /\ c \in DOMAIN schema
                        /\ \/ Strip(E.data[c]) = <<>>
                           \/ ~safe_cast(E.data[c], schema[c]).ok
                IN  /\ Cardinality(about) <= 1
                    /\ (about # {}) <=> offending

-----------------------------------------------------------------------------
(* Properties of safe_cast, checked under CastSpec *)

\* C2: safe_cast always returns a (value, succeeded) pair; no exception
\* leaves it, whatever the cell and the type tag.
C2_NoExceptionEscapes ==
    /\ cast_pc # "start" => cast_res.exc = "none"
    /\ cast_pc = "recast" => recast_res.exc = "none"

\* C7 as stated: coercing str(x) of a successful result x succeeds again and
\* yields a value equal to x.
C7_Idempotent ==
    cast_pc = "recast" =>
        /\ recast_res.exc = "none"
        /\ recast_res.ok
        /\ PyEq(recast_res.val, cast_res.val)

\* C7: coercing str(x) of a successful result x succeeds again; it yields a
\* value equal to x, except that a float nan yields a nan again, which is
\* equal to no value.
C7_IdempotentUpToNaN ==
    cast_pc = "recast" =>
        /\ recast_res.exc = "none"
        /\ recast_res.ok
        /\ IF IsNaN(cast_res.val)
           THEN IsNaN(recast_res.val)
           ELSE PyEq(recast_res.val, cast_res.val)

\* "10.0" coerced to int 10, and "10" coerced to int 10 again
C7_Witness ==
    /\ cast_pc = "recast"
    /\ cast_type = "int"
    /\ cast_value = <<"1", "0", ".", "0">>
    /\ cast_res = Returned(PyIntVal(10), TRUE)
    /\ recast_res = Returned(PyIntVal(10), TRUE)

\* C8: for a cell that is not blank, ignoring case: the trimmed cell is one
\* of true, t, 1, yes, y iff the result is (True, True); one of false, f, 0,
\* no, n iff it is (False, True); any other cell gives (trimmed cell, False).
C8_BoolCoercion ==
    (cast_pc # "start" /\ cast_type = "bool" /\ Strip(cast_value) # <<>>) =>
        LET v == Strip(cast_value)
            isTrue == Lower(v) \in {<<"t", "r", "u", "e">>, <<"t">>, <<"1">>,
                                    <<"y", "e", "s">>, <<"y">>}
            isFalse == Lower(v) \in {<<"f", "a", "l", "s", "e">>, <<"f">>, <<"0">>,
                                     <<"n", "o">>, <<"n">>}
        IN  /\ isTrue <=> cast_res = Returned(PyBoolVal(TRUE), TRUE)
            /\ isFalse <=> cast_res = Returned(PyBoolVal(FALSE), TRUE)
            /\ (~isTrue /\ ~isFalse) => cast_res = Returned(PyStrVal(v), FALSE)

\* "NO" coerced to False
C8_Witness ==
    /\ cast_pc = "cast"
    /\ cast_type = "bool"
    /\ cast_value = <<"N", "O">>
    /\ cast_res = Returned(PyBoolVal(FALSE), TRUE)

====
